---- MODULE Spec2Model ----
(***************************************************************************)
(* minigrep: a model of src/src/lib.rs (Config::new, run, search,          *)
(* search_case_insensitive) and of src/src/main.rs (main).                 *)
(*                                                                         *)
(* Text is a sequence of characters, each written as a string: "LF" is    *)
(* U+000A, "CR" is U+000D, "SIGMA" is U+03A3 (capital sigma), "sigma" is   *)
(* U+03C3, "fsigma" is U+03C2 (final small sigma), "'" is the apostrophe   *)
(* and "x" is a character that is no digit and no sign.                    *)
(***************************************************************************)
EXTENDS Integers, Sequences, FiniteSets, TLC

(***************************************************************************)
(* Bounds of the model.                                                    *)
(***************************************************************************)
MaxTextLen == 4
MaxPatLen == 2
MaxArgs == 4
MaxEnvLen == 2
MaxFileLen == 3

I32Max == 2147483647

\* The characters the inputs of the filters and the file are drawn from.
TextChars == {"a", "A", "SIGMA", "LF", "CR"}

\* The characters the value of CASE_INSENSITIVE is drawn from.
EnvChars == {"0", "1", "+", "-", "x"}

RECURSIVE StringsUpTo(_, _)
StringsUpTo(alphabet, n) ==
    IF n = 0 THEN {<<>>}
    ELSE LET shorter == StringsUpTo(alphabet, n - 1)
         IN  shorter \cup {Append(s, c) : s \in shorter, c \in alphabet}

(***************************************************************************)
(* str::contains(&str): the needle occurs at some offset of the haystack.  *)
(***************************************************************************)
ContainsAtStartOnly(haystack, needle) ==
    /\ Len(needle) <= Len(haystack)
    /\ SubSeq(haystack, 1, Len(needle)) = needle

ContainsNonEmptyNeedle(haystack, needle) ==
    /\ needle # <<>>
    /\ \E i \in 0..(Len(haystack) - Len(needle)) :
           SubSeq(haystack, i + 1, i + Len(needle)) = needle

Contains(haystack, needle) ==
    \E i \in 0..(Len(haystack) - Len(needle)) :
        SubSeq(haystack, i + 1, i + Len(needle)) = needle

(***************************************************************************)
(* str::lines(): the text is cut after every "LF"; a piece that ends in    *)
(* "LF" loses it, and then loses one "CR" if it ends in one; a last piece  *)
(* without "LF" is a line as it stands; empty text has no line.            *)
(***************************************************************************)
FirstLF(s) ==
    IF \E i \in 1..Len(s) : s[i] = "LF"
    THEN CHOOSE i \in 1..Len(s) : s[i] = "LF" /\ \A j \in 1..(i - 1) : s[j] # "LF"
    ELSE 0

StripCR(s) ==
    IF Len(s) > 0 /\ s[Len(s)] = "CR" THEN SubSeq(s, 1, Len(s) - 1) ELSE s

RECURSIVE LinesSplitOnLF(_)
LinesSplitOnLF(s) ==
    LET k == FirstLF(s)
    IN  IF k = 0 THEN <<s>>
        ELSE <<StripCR(SubSeq(s, 1, k - 1))>> \o LinesSplitOnLF(SubSeq(s, k + 1, Len(s)))

RECURSIVE Lines(_)
Lines(s) ==
    IF s = <<>> THEN <<>>
    ELSE LET k == FirstLF(s)
         IN  IF k = 0 THEN <<s>>
             ELSE <<StripCR(SubSeq(s, 1, k - 1))>> \o Lines(SubSeq(s, k + 1, Len(s)))

(***************************************************************************)
(* str::to_lowercase(): every character is replaced by its lowercase       *)
(* mapping, except "SIGMA", which becomes "fsigma" at the end of a word    *)
(* (Final_Sigma: preceded by a cased letter, with case-ignorable ones      *)
(* skipped, and not followed by one) and "sigma" elsewhere.  The context   *)
(* is the whole string that to_lowercase is called on.                     *)
(***************************************************************************)
Cased == {"a", "A", "SIGMA", "sigma", "fsigma"}

CaseIgnorable == {"'"}

ToLower(c) == IF c = "A" THEN <<"a">> ELSE <<c>>

\* iter.skip_while(Case_Ignorable).next() is a cased letter, for the
\* characters of s at the positions idx[1], idx[2], ...
CaseIgnorableThenCased(s, idx) ==
    LET rest == {k \in 1..Len(idx) : s[idx[k]] \notin CaseIgnorable}
    IN  /\ rest # {}
        /\ s[idx[CHOOSE k \in rest : \A m \in rest : k <= m]] \in Cased

MapUppercaseSigma(s, i) ==
    LET before == [k \in 1..(i - 1) |-> i - k]
        after  == [k \in 1..(Len(s) - i) |-> i + k]
    IN  IF CaseIgnorableThenCased(s, before) /\ ~CaseIgnorableThenCased(s, after)
        THEN "fsigma" ELSE "sigma"

RECURSIVE Flatten(_)
Flatten(ss) == IF ss = <<>> THEN <<>> ELSE Head(ss) \o Flatten(Tail(ss))

ToLowercase(s) ==
    Flatten([i \in 1..Len(s) |->
                IF s[i] = "SIGMA" THEN <<MapUppercaseSigma(s, i)>> ELSE ToLower(s[i])])

(***************************************************************************)
(* The two filters.                                                        *)
(***************************************************************************)
search(pattern, contents) ==
    SelectSeq(Lines(contents), LAMBDA line : Contains(line, pattern))

SearchReturningLowered(pattern, contents) ==
    LET lowered == [i \in 1..Len(Lines(contents)) |-> ToLowercase(Lines(contents)[i])]
    IN  SelectSeq(lowered, LAMBDA line : Contains(line, ToLowercase(pattern)))

search_case_insensitive(pattern, contents) ==
    LET lowerPattern == ToLowercase(pattern)
    IN  SelectSeq(Lines(contents), LAMBDA line : Contains(ToLowercase(line), lowerPattern))

(***************************************************************************)
(* str::parse::<i32>(): an optional sign, then at least one decimal digit  *)
(* and nothing else; a value outside of i32 is an error.                   *)
(***************************************************************************)
Digits == {"0", "1"}

DigitValue(c) == IF c = "1" THEN 1 ELSE 0

RECURSIVE DecimalValue(_)
DecimalValue(ds) ==
    IF ds = <<>> THEN 0
    ELSE 10 * DecimalValue(SubSeq(ds, 1, Len(ds) - 1)) + DigitValue(ds[Len(ds)])

ParseI32(s) ==
    LET signed == Len(s) > 0 /\ s[1] \in {"+", "-"}
        digits == IF signed THEN Tail(s) ELSE s
        val    == IF signed /\ s[1] = "-" THEN 0 - DecimalValue(digits)
                  ELSE DecimalValue(digits)
    IN  IF digits = <<>> \/ \E i \in 1..Len(digits) : digits[i] \notin Digits
        THEN [ok |-> FALSE, val |-> 0]
        ELSE IF val > I32Max \/ val < 0 - I32Max - 1
        THEN [ok |-> FALSE, val |-> 0]
        ELSE [ok |-> TRUE, val |-> val]

(***************************************************************************)
(* The state.                                                              *)
(***************************************************************************)
VARIABLES
    argv,       \* the arguments of the process, the program name first
    env,        \* the environment variable CASE_INSENSITIVE
    disk,       \* the file named TheFile, or why it cannot be read
    pc,         \* the position of the process
    argIdx,     \* how many elements the iterator `args` has yielded
    pattern,    \* Config::new's local `pattern`
    filename,   \* Config::new's local `filename`
    newResult,  \* what Config::new returned
    config,     \* the Config, once newResult is Ok
    contents,   \* run's local `contents`
    results,    \* run's local `results`
    printIdx,   \* how many elements of `results` the for loop has taken
    runResult,  \* what run returned
    stdout,     \* the characters written to standard output
    stderr,     \* the messages written to standard error
    exitCode,   \* the exit status of the process, -1 while it runs
    called,     \* the filters run has called
    log,        \* the steps taken so far, in order
    pat,        \* the pattern a caller of the library passes to the filters
    text,       \* the content a caller of the library passes to the filters
    resExact,   \* what search(pat, text) returned
    resFold     \* what search_case_insensitive(pat, text) returned

progVars == <<argv, env, disk, pc, argIdx, pattern, filename, newResult, config,
              contents, results, printIdx, runResult, stdout, stderr, exitCode,
              called, log>>

libVars == <<pat, text, resExact, resFold>>

vars == <<argv, env, disk, pc, argIdx, pattern, filename, newResult, config,
          contents, results, printIdx, runResult, stdout, stderr, exitCode,
          called, log, pat, text, resExact, resFold>>

(***************************************************************************)
(* The inputs.                                                             *)
(***************************************************************************)
TheFile == <<"a">>

ArgStrs == {<<>>, <<"a">>, <<"A">>}

ArgVecs == StringsUpTo(ArgStrs, MaxArgs)

EnvUnset == [kind |-> "unset", val |-> <<>>]

EnvNotUnicode == [kind |-> "not_unicode", val |-> <<>>]

EnvValue(v) == [kind |-> "value", val |-> v]

EnvAll == {EnvUnset, EnvNotUnicode} \cup {EnvValue(v) : v \in StringsUpTo(EnvChars, MaxEnvLen)}

EnvFew == {EnvUnset, EnvValue(<<"1">>), EnvValue(<<"0">>)}

DiskFile(data) == [ok |-> TRUE, data |-> data, err |-> "none"]

DiskError(kind) == [ok |-> FALSE, data |-> <<>>, err |-> kind]

DiskErrors == {DiskError(k) : k \in {"NotFound", "PermissionDenied", "InvalidData"}}

DiskAll == {DiskFile(d) : d \in StringsUpTo(TextChars, MaxFileLen)} \cup DiskErrors

DiskFew == {DiskFile(<<"a", "LF", "A">>), DiskError("PermissionDenied")}

NoResult == [tag |-> "none", msg |-> "none"]

NoConfig == [pattern |-> <<>>, filename |-> <<>>, case_sensitive |-> TRUE]

NotCalled == [called |-> FALSE, lines |-> <<>>]

InitLocals ==
    /\ argIdx = 0
    /\ pattern = <<>>
    /\ filename = <<>>
    /\ newResult = NoResult
    /\ config = NoConfig
    /\ contents = <<>>
    /\ results = <<>>
    /\ printIdx = 0
    /\ runResult = NoResult
    /\ stdout = <<>>
    /\ stderr = <<>>
    /\ exitCode = -1
    /\ called = {}
    /\ log = <<>>

InitLibIdle ==
    /\ pat = <<>>
    /\ text = <<>>
    /\ resExact = NotCalled
    /\ resFold = NotCalled

\* The process starts: any arguments, a few environments, any file.
Init ==
    /\ argv \in ArgVecs
    /\ env \in EnvFew
    /\ disk \in DiskAll
    /\ pc = "main"
    /\ InitLocals
    /\ InitLibIdle

\* The process starts: any arguments, any environment, a few files.
InitConfig ==
    /\ argv \in ArgVecs
    /\ env \in EnvAll
    /\ disk \in DiskFew
    /\ pc = "main"
    /\ InitLocals
    /\ InitLibIdle

\* A caller of the library is about to call the filters on any pattern and
\* any content.
InitFilter ==
    /\ argv = <<>>
    /\ env = EnvUnset
    /\ disk = DiskError("NotFound")
    /\ pc = "lib"
    /\ InitLocals
    /\ pat \in StringsUpTo(TextChars, MaxPatLen)
    /\ text \in StringsUpTo(TextChars, MaxTextLen)
    /\ resExact = NotCalled
    /\ resFold = NotCalled

(***************************************************************************)
(* Config::new.  `args` is an iterator over argv; next() yields the        *)
(* element after the ones yielded so far, or None at the end.              *)
(***************************************************************************)
ArgsExhausted == argIdx >= Len(argv)

NotEnoughArguments == [tag |-> "Err", msg |-> "not enough arguments specified"]

\* env::var("CASE_INSENSITIVE"): Ok(val) when the variable is set to valid
\* Unicode, Err otherwise.
EnvVar == IF env.kind = "value" THEN [ok |-> TRUE, val |-> env.val]
          ELSE [ok |-> FALSE, val |-> <<>>]

UnwrapOr(parsed, default) == IF parsed.ok THEN parsed.val ELSE default

CaseSensitiveUnwrapOrOne(var) ==
    IF var.ok
    THEN IF UnwrapOr(ParseI32(var.val), 1) = 1 THEN FALSE ELSE TRUE
    ELSE TRUE

CaseSensitiveFromEnv(var) ==
    IF var.ok
    THEN IF UnwrapOr(ParseI32(var.val), 0) = 1 THEN FALSE ELSE TRUE
    ELSE TRUE

\* main, line 8, and Config::new, line 14: the arguments are collected and
\* the program name is taken from the iterator and dropped.
New_KeepProgramName ==
    /\ pc = "main"
    /\ pc' = "new_pattern"
    /\ log' = Append(log, "args")
    /\ UNCHANGED <<argv, env, disk, argIdx, pattern, filename, newResult, config, contents,
                   results, printIdx, runResult, stdout, stderr, exitCode, called>>
    /\ UNCHANGED libVars

New_SkipProgramName ==
    /\ pc = "main"
    /\ argIdx' = IF ArgsExhausted THEN argIdx ELSE argIdx + 1
    /\ pc' = "new_pattern"
    /\ log' = Append(log, "args")
    /\ UNCHANGED <<argv, env, disk, pattern, filename, newResult, config, contents,
                   results, printIdx, runResult, stdout, stderr, exitCode, called>>
    /\ UNCHANGED libVars

\* Config::new, lines 17-20.
New_PatternReadingEnvFirst ==
    /\ pc = "new_pattern"
    /\ log' = Append(log, "env")
    /\ IF ArgsExhausted
       THEN /\ newResult' = NotEnoughArguments
            /\ pc' = "main_config"
            /\ UNCHANGED <<argIdx, pattern>>
       ELSE /\ pattern' = argv[argIdx + 1]
            /\ argIdx' = argIdx + 1
            /\ pc' = "new_filename"
            /\ UNCHANGED newResult
    /\ UNCHANGED <<argv, env, disk, filename, config, contents, results, printIdx,
                   runResult, stdout, stderr, exitCode, called>>
    /\ UNCHANGED libVars

New_Pattern ==
    /\ pc = "new_pattern"
    /\ IF ArgsExhausted
       THEN /\ newResult' = NotEnoughArguments
            /\ pc' = "main_config"
            /\ UNCHANGED <<argIdx, pattern>>
       ELSE /\ pattern' = argv[argIdx + 1]
            /\ argIdx' = argIdx + 1
            /\ pc' = "new_filename"
            /\ UNCHANGED newResult
    /\ UNCHANGED <<argv, env, disk, filename, config, contents, results, printIdx,
                   runResult, stdout, stderr, exitCode, called, log>>
    /\ UNCHANGED libVars

\* Config::new, lines 21-24.
New_Filename ==
    /\ pc = "new_filename"
    /\ IF ArgsExhausted
       THEN /\ newResult' = NotEnoughArguments
            /\ pc' = "main_config"
            /\ UNCHANGED <<argIdx, filename>>
       ELSE /\ filename' = argv[argIdx + 1]
            /\ argIdx' = argIdx + 1
            /\ pc' = "new_case"
            /\ UNCHANGED newResult
    /\ UNCHANGED <<argv, env, disk, pattern, config, contents, results, printIdx,
                   runResult, stdout, stderr, exitCode, called, log>>
    /\ UNCHANGED libVars

\* Config::new, lines 26-36.
New_CaseSensitive ==
    /\ pc = "new_case"
    /\ log' = Append(log, "env")
    /\ config' = [pattern |-> pattern, filename |-> filename,
                  case_sensitive |-> CaseSensitiveFromEnv(EnvVar)]
    /\ newResult' = [tag |-> "Ok", msg |-> "none"]
    /\ pc' = "main_config"
    /\ UNCHANGED <<argv, env, disk, argIdx, pattern, filename, contents, results, printIdx,
                   runResult, stdout, stderr, exitCode, called>>
    /\ UNCHANGED libVars

(***************************************************************************)
(* main, lines 9-12: unwrap_or_else on what Config::new returned.          *)
(***************************************************************************)
Main_ConfigErr ==
    /\ pc = "main_config"
    /\ newResult.tag = "Err"
    /\ stderr' = Append(stderr, <<"Problem parsing arguments: ", newResult.msg>>)
    /\ exitCode' = 1
    /\ pc' = "exited"
    /\ UNCHANGED <<argv, env, disk, argIdx, pattern, filename, newResult, config, contents,
                   results, printIdx, runResult, stdout, called, log>>
    /\ UNCHANGED libVars

Main_ConfigOk ==
    /\ pc = "main_config"
    /\ newResult.tag = "Ok"
    /\ pc' = "run_read"
    /\ UNCHANGED <<argv, env, disk, argIdx, pattern, filename, newResult, config, contents,
                   results, printIdx, runResult, stdout, stderr, exitCode, called, log>>
    /\ UNCHANGED libVars

(***************************************************************************)
(* run.                                                                    *)
(***************************************************************************)
\* fs::read_to_string(path): the whole file as text, or the I/O error.
ReadToString(path) ==
    IF path # TheFile THEN [ok |-> FALSE, data |-> <<>>, err |-> "NotFound"]
    ELSE disk

\* run, line 41.
Run_ReadOrDefault ==
    /\ pc = "run_read"
    /\ log' = Append(log, "read")
    /\ contents' = ReadToString(config.filename).data
    /\ pc' = "run_filter"
    /\ UNCHANGED runResult
    /\ UNCHANGED <<argv, env, disk, argIdx, pattern, filename, newResult, config, results,
                   printIdx, stdout, stderr, exitCode, called>>
    /\ UNCHANGED libVars

Run_Read ==
    /\ pc = "run_read"
    /\ log' = Append(log, "read")
    /\ LET read == ReadToString(config.filename)
       IN  IF read.ok
           THEN /\ contents' = read.data
                /\ pc' = "run_filter"
                /\ UNCHANGED runResult
           ELSE /\ runResult' = [tag |-> "Err", msg |-> read.err]
                /\ pc' = "main_run"
                /\ UNCHANGED contents
    /\ UNCHANGED <<argv, env, disk, argIdx, pattern, filename, newResult, config, results,
                   printIdx, stdout, stderr, exitCode, called>>
    /\ UNCHANGED libVars

\* run, lines 42-46.
Run_FilterSwapped ==
    /\ pc = "run_filter"
    /\ log' = Append(log, "filter")
    /\ IF config.case_sensitive
       THEN /\ results' = search_case_insensitive(config.pattern, contents)
            /\ called' = called \cup {"search_case_insensitive"}
       ELSE /\ results' = search(config.pattern, contents)
            /\ called' = called \cup {"search"}
    /\ pc' = "run_print"
    /\ UNCHANGED <<argv, env, disk, argIdx, pattern, filename, newResult, config, contents,
                   printIdx, runResult, stdout, stderr, exitCode>>
    /\ UNCHANGED libVars

Run_Filter ==
    /\ pc = "run_filter"
    /\ log' = Append(log, "filter")
    /\ IF config.case_sensitive
       THEN /\ results' = search(config.pattern, contents)
            /\ called' = called \cup {"search"}
       ELSE /\ results' = search_case_insensitive(config.pattern, contents)
            /\ called' = called \cup {"search_case_insensitive"}
    /\ pc' = "run_print"
    /\ UNCHANGED <<argv, env, disk, argIdx, pattern, filename, newResult, config, contents,
                   printIdx, runResult, stdout, stderr, exitCode>>
    /\ UNCHANGED libVars

\* println!("{}", line): the line and a line feed.
Println(line) == line \o <<"LF">>

\* run, lines 48-50: one turn of the for loop.
Run_Print ==
    /\ pc = "run_print"
    /\ printIdx < Len(results)
    /\ stdout' = stdout \o Println(results[printIdx + 1])
    /\ printIdx' = printIdx + 1
    /\ log' = Append(log, "print")
    /\ UNCHANGED <<argv, env, disk, pc, argIdx, pattern, filename, newResult, config,
                   contents, results, runResult, stderr, exitCode, called>>
    /\ UNCHANGED libVars

\* run, line 52: the loop is over.
Run_ReturnOk ==
    /\ pc = "run_print"
    /\ printIdx >= Len(results)
    /\ runResult' = [tag |-> "Ok", msg |-> "none"]
    /\ pc' = "main_run"
    /\ UNCHANGED <<argv, env, disk, argIdx, pattern, filename, newResult, config, contents,
                   results, printIdx, stdout, stderr, exitCode, called, log>>
    /\ UNCHANGED libVars

(***************************************************************************)
(* main, lines 15-19.                                                      *)
(***************************************************************************)
Main_RunErr ==
    /\ pc = "main_run"
    /\ runResult.tag = "Err"
    /\ stderr' = Append(stderr, <<"Application error: ", runResult.msg>>)
    /\ exitCode' = 1
    /\ pc' = "exited"
    /\ UNCHANGED <<argv, env, disk, argIdx, pattern, filename, newResult, config, contents,
                   results, printIdx, runResult, stdout, called, log>>
    /\ UNCHANGED libVars

Main_RunOk ==
    /\ pc = "main_run"
    /\ runResult.tag = "Ok"
    /\ exitCode' = 0
    /\ pc' = "exited"
    /\ UNCHANGED <<argv, env, disk, argIdx, pattern, filename, newResult, config, contents,
                   results, printIdx, runResult, stdout, stderr, called, log>>
    /\ UNCHANGED libVars

(***************************************************************************)
(* A caller of the library calls the filters, as the tests of lib.rs do.   *)
(***************************************************************************)
CallSearch ==
    /\ pc = "lib"
    /\ ~resExact.called
    /\ resExact' = [called |-> TRUE, lines |-> search(pat, text)]
    /\ UNCHANGED <<pat, text, resFold>>
    /\ UNCHANGED progVars

CallSearchCaseInsensitive ==
    /\ pc = "lib"
    /\ ~resFold.called
    /\ resFold' = [called |-> TRUE, lines |-> search_case_insensitive(pat, text)]
    /\ UNCHANGED <<pat, text, resExact>>
    /\ UNCHANGED progVars

(***************************************************************************)
(* The specifications.                                                     *)
(***************************************************************************)
Next ==
    \/ New_SkipProgramName
    \/ New_Pattern
    \/ New_Filename
    \/ New_CaseSensitive
    \/ Main_ConfigErr
    \/ Main_ConfigOk
    \/ Run_Read
    \/ Run_Filter
    \/ Run_Print
    \/ Run_ReturnOk
    \/ Main_RunErr
    \/ Main_RunOk

NextFilter ==
    \/ CallSearch
    \/ CallSearchCaseInsensitive

\* The process, on any file.
Spec == Init /\ [][Next]_vars

\* The process, in any environment.
SpecConfig == InitConfig /\ [][Next]_vars

\* The filters, called on any pattern and content.
SpecFilter == InitFilter /\ [][NextFilter]_vars

(***************************************************************************)
(* What the properties are stated with.                                    *)
(***************************************************************************)
\* p occurs in line as a contiguous substring.
Occurs(p, line) ==
    \E i \in 0..Len(line) : \E j \in i..Len(line) : SubSeq(line, i + 1, j) = p

\* res is the elements of lines at the positions in keep, in the order of
\* lines, each as often as its positions are in keep.
IsSelection(res, lines, keep) ==
    /\ Len(res) = Cardinality(keep)
    /\ \A i \in keep : res[Cardinality({j \in keep : j <= i})] = lines[i]

Range(f) == {f[i] : i \in DOMAIN f}

\* Each line followed by a line feed, one after the other.
RECURSIVE JoinLines(_)
JoinLines(ls) == IF ls = <<>> THEN <<>> ELSE Head(ls) \o <<"LF">> \o JoinLines(Tail(ls))

\* The text with every "CR" "LF" replaced by "LF", and a last "LF" added
\* when the text is not empty and does not end in one.
RECURSIVE UnixText(_)
UnixText(s) ==
    IF s = <<>> THEN <<>>
    ELSE IF s = <<"CR", "LF">> \/ (Len(s) >= 2 /\ s[1] = "CR" /\ s[2] = "LF")
    THEN <<"LF">> \o UnixText(SubSeq(s, 3, Len(s)))
    ELSE IF Len(s) = 1 /\ s[1] # "LF" THEN <<s[1], "LF">>
    ELSE <<s[1]>> \o UnixText(Tail(s))

\* The value denotes the integer 1: an optional "+", any number of "0",
\* then "1".
DenotesOne(v) ==
    /\ Len(v) >= 1
    /\ v[Len(v)] = "1"
    /\ \A i \in 1..(Len(v) - 1) : v[i] = "0" \/ (i = 1 /\ v[i] = "+")

\* Config::new has returned.
NewReturned == newResult.tag # "none"

\* The file that run is given can be read.
Readable == config.filename = TheFile /\ disk.ok

\* Why the file that run is given cannot be read.
ReadFailure == IF config.filename # TheFile THEN "NotFound" ELSE disk.err

\* run has come back from fs::read_to_string.
ReadDone == pc \in {"run_filter", "run_print", "main_run"} \/ (pc = "exited" /\ newResult.tag = "Ok")

(***************************************************************************)
(* C1: search(pat, text) is exactly the lines of text that contain pat as  *)
(* a contiguous substring: no other line, every such line, in the order of *)
(* text, a line as often as it occurs.                                     *)
(***************************************************************************)
C1_SearchExactLines ==
    resExact.called =>
        LET lines == Lines(text)
        IN  /\ IsSelection(resExact.lines, lines,
                           {i \in 1..Len(lines) : Occurs(pat, lines[i])})
            /\ \A k \in 1..Len(resExact.lines) : Occurs(pat, resExact.lines[k])

\* search has returned the same line twice and left out a line between.
C1_Witness ==
    /\ resExact.called
    /\ Len(resExact.lines) = 2
    /\ resExact.lines[1] = resExact.lines[2]
    /\ Len(Lines(text)) = 3
    /\ pat # <<>>

(***************************************************************************)
(* C2: every line that search(pat, text) returns is also returned by       *)
(* search_case_insensitive(pat, text).                                     *)
(***************************************************************************)
C2_FoldedIsSuperset ==
    (resExact.called /\ resFold.called) =>
        \A k \in 1..Len(resExact.lines) : resExact.lines[k] \in Range(resFold.lines)

(***************************************************************************)
(* C3: search_case_insensitive(pat, text) is exactly the lines of text     *)
(* whose lowercase form contains the lowercase form of pat, in the order   *)
(* of text, each as it stands in text and not lowercased.                  *)
(***************************************************************************)
C3_FoldedLines ==
    resFold.called =>
        LET lines == Lines(text)
        IN  IsSelection(resFold.lines, lines,
                        {i \in 1..Len(lines) : Occurs(ToLowercase(pat), ToLowercase(lines[i]))})

\* An uppercase pattern has found a line that is not its own lowercase form
\* and that the exact filter does not return.
C3_Witness ==
    /\ resFold.called
    /\ resExact.called
    /\ pat = <<"A">>
    /\ Len(resFold.lines) = 2
    /\ resExact.lines = <<resFold.lines[2]>>
    /\ ToLowercase(resFold.lines[2]) # resFold.lines[2]

(***************************************************************************)
(* C4: Config::new fails with "not enough arguments" when argv has fewer   *)
(* than three elements; otherwise it succeeds with the second element as   *)
(* pattern and the third as filename, and takes no element after the third.*)
(***************************************************************************)
C4_ConfigFromArgs ==
    NewReturned =>
        IF Len(argv) < 3
        THEN newResult = [tag |-> "Err", msg |-> "not enough arguments specified"]
        ELSE /\ newResult.tag = "Ok"
             /\ config.pattern = argv[2]
             /\ config.filename = argv[3]
             /\ argIdx = 3

\* Config::new has succeeded on four arguments that all differ from their
\* neighbours.
C4_Witness ==
    /\ NewReturned
    /\ newResult.tag = "Ok"
    /\ Len(argv) = 4
    /\ argv[1] # argv[2] /\ argv[2] # argv[3] /\ argv[3] # argv[4]

(***************************************************************************)
(* C5: after a successful Config::new, case_sensitive is false exactly when*)
(* CASE_INSENSITIVE is set and its value denotes the integer 1.            *)
(***************************************************************************)
C5_CaseSensitiveFromEnv ==
    (NewReturned /\ newResult.tag = "Ok") =>
        (config.case_sensitive = FALSE <=> (env.kind = "value" /\ DenotesOne(env.val)))

\* case_sensitive is false for a value that is not the one character "1".
C5_Witness ==
    /\ NewReturned
    /\ newResult.tag = "Ok"
    /\ ~config.case_sensitive
    /\ env.val # <<"1">>

(***************************************************************************)
(* C6: when the file cannot be read, run returns the read error, no filter *)
(* is called, nothing is written to standard output, and the process       *)
(* writes the error to standard error and exits with a non-zero status.    *)
(***************************************************************************)
C6_ReadFailure ==
    (ReadDone /\ ~Readable) =>
        /\ runResult = [tag |-> "Err", msg |-> ReadFailure]
        /\ called = {}
        /\ stdout = <<>>
        /\ pc \in {"main_run", "exited"}
        /\ pc = "exited" =>
              /\ stderr = << <<"Application error: ", ReadFailure>> >>
              /\ exitCode # 0
              /\ exitCode # -1

\* The process has exited after the file named TheFile could not be
\* decoded.
C6_Witness ==
    /\ pc = "exited"
    /\ newResult.tag = "Ok"
    /\ config.filename = TheFile
    /\ disk.err = "InvalidData"
    /\ config.pattern = <<>>

(***************************************************************************)
(* C7: when the file can be read, run writes the lines of the filter that  *)
(* the flag selects, each followed by a line feed and nothing else, in     *)
(* order, and returns Ok, also when no line matches.                       *)
(***************************************************************************)
C7_PrintsSelectedFilter ==
    (NewReturned /\ newResult.tag = "Ok" /\ Readable /\ runResult.tag # "none") =>
        /\ runResult.tag = "Ok"
        /\ stdout = JoinLines(IF config.case_sensitive
                              THEN search(config.pattern, disk.data)
                              ELSE search_case_insensitive(config.pattern, disk.data))
        /\ called = {IF config.case_sensitive THEN "search" ELSE "search_case_insensitive"}
        /\ stderr = <<>>

\* The case-insensitive filter has been selected and run has printed two
\* lines where the exact filter would have found one.
C7_Witness ==
    /\ runResult.tag = "Ok"
    /\ ~config.case_sensitive
    /\ printIdx = 2
    /\ Len(search(config.pattern, contents)) = 1

\* run has returned Ok without printing a line of a file that has lines.
C7_WitnessNoMatch ==
    /\ runResult.tag = "Ok"
    /\ stdout = <<>>
    /\ contents # <<>>

(***************************************************************************)
(* C8: on content that is not empty, search with the empty pattern returns *)
(* every line of the content, unchanged and in order.                      *)
(***************************************************************************)
C8_EmptyPatternAllLines ==
    (resExact.called /\ pat = <<>> /\ text # <<>>) =>
        /\ resExact.lines = Lines(text)
        /\ resExact.lines # <<>>
        /\ JoinLines(resExact.lines) = UnixText(text)

\* The empty pattern has returned three lines, an empty one among them.
C8_Witness ==
    /\ resExact.called
    /\ pat = <<>>
    /\ Len(resExact.lines) = 3
    /\ <<>> \in Range(resExact.lines)
    /\ <<"A">> \in Range(resExact.lines)

(***************************************************************************)
(* C9: the steps are in the order arguments, environment, file read,       *)
(* filter, print.  When the arguments do not suffice the process exits     *)
(* with a non-zero status and has read neither the environment nor the     *)
(* file; the filter starts with the whole file in `contents`; a line is    *)
(* printed only when the filter has returned all of its lines.             *)
(***************************************************************************)
StepRank(step) ==
    CASE step = "args" -> 1
      [] step = "env" -> 2
      [] step = "read" -> 3
      [] step = "filter" -> 4
      [] step = "print" -> 5

C9_StepOrder ==
    /\ \A i \in 1..Len(log) :
          /\ i = 1 => log[i] = "args"
          /\ i > 1 => \/ StepRank(log[i]) = StepRank(log[i - 1]) + 1
                      \/ log[i] = "print" /\ log[i - 1] = "print"
    /\ (pc = "exited" /\ Len(argv) < 3) =>
          /\ log = <<"args">>
          /\ exitCode = 1
          /\ stderr # <<>>
    /\ "filter" \in Range(log) => contents = disk.data /\ Readable
    /\ stdout # <<>> =>
          /\ "filter" \in Range(log)
          /\ results = IF config.case_sensitive
                       THEN search(config.pattern, disk.data)
                       ELSE search_case_insensitive(config.pattern, disk.data)

\* The process has taken every step and printed twice.
C9_Witness ==
    /\ pc = "exited"
    /\ log = <<"args", "env", "read", "filter", "print", "print">>

\* The process has exited on two arguments.
C9_WitnessArgs ==
    /\ pc = "exited"
    /\ Len(argv) = 2
    /\ env.kind = "value"

(***************************************************************************)
(* C10: on empty content both filters return the empty sequence, for every *)
(* pattern, the empty one included.                                        *)
(***************************************************************************)
C10_EmptyContent ==
    text = <<>> =>
        /\ resExact.called => resExact.lines = <<>>
        /\ resFold.called => resFold.lines = <<>>

\* Both filters have been called with the empty pattern on empty content.
C10_Witness ==
    /\ text = <<>>
    /\ pat = <<>>
    /\ resExact.called
    /\ resFold.called

====
